---- MODULE Spec2Model ----
(***************************************************************************)
(* Model of the LebwohlLasher launcher (run_LebwohlLasher.py) and of the   *)
(* extension build script (cython/setup_LebwohlLasher.py).                 *)
(*                                                                         *)
(* A command-line argument is a sequence of one-character strings, so that *)
(* int() and float() are computed from the characters.  A bound name holds *)
(* <<>> while unbound and <<v>> once the assignment has run.  A float is a *)
(* record: the sign, and for a finite value the decimal m * 10^e with m    *)
(* not divisible by 10 (short decimal literals denote distinct doubles).   *)
(***************************************************************************)
EXTENDS Integers, Sequences, FiniteSets, TLC

(* ---------------------------- bounds ----------------------------------- *)

\* largest number of positional arguments of an invocation
MaxArgs == 5

\* how many of the ArgTokens an invocation draws its arguments from
NumTokens == 5

(* ------------------------- character classes --------------------------- *)

DigitVal ==
  [c \in {"0","1","2","3","4","5","6","7","8","9"} |->
     CASE c = "0" -> 0 [] c = "1" -> 1 [] c = "2" -> 2 [] c = "3" -> 3
       [] c = "4" -> 4 [] c = "5" -> 5 [] c = "6" -> 6 [] c = "7" -> 7
       [] c = "8" -> 8 [] c = "9" -> 9]

IsDigit(c) == c \in DOMAIN DigitVal

IsSpace(c) == c \in {" ", "\t", "\n"}

IsSign(c) == c \in {"+", "-"}

Lower(c) ==
  CASE c = "I" -> "i" [] c = "N" -> "n" [] c = "F" -> "f" [] c = "T" -> "t"
    [] c = "Y" -> "y" [] c = "A" -> "a" [] c = "E" -> "e" [] OTHER -> c

LowerStr(s) == [i \in 1..Len(s) |-> Lower(s[i])]

RECURSIVE LStrip(_)
LStrip(s) == IF s # <<>> /\ IsSpace(Head(s)) THEN LStrip(Tail(s)) ELSE s

RECURSIVE RStrip(_)
RStrip(s) ==
  IF s # <<>> /\ IsSpace(s[Len(s)]) THEN RStrip(SubSeq(s, 1, Len(s) - 1)) ELSE s

Strip(s) == RStrip(LStrip(s))

\* a run of decimal digits in which single underscores may separate digits
DigitPart(s) ==
  /\ s # <<>>
  /\ \A i \in 1..Len(s) : IsDigit(s[i]) \/ s[i] = "_"
  /\ IsDigit(s[1])
  /\ IsDigit(s[Len(s)])
  /\ \A i \in 1..(Len(s) - 1) : s[i] = "_" => s[i + 1] # "_"

DigitsOf(s) == SelectSeq(s, IsDigit)

RECURSIVE DecVal(_)
DecVal(ds) ==
  IF ds = <<>> THEN 0
  ELSE 10 * DecVal(SubSeq(ds, 1, Len(ds) - 1)) + DigitVal[ds[Len(ds)]]

Unsigned(s) == IF s # <<>> /\ IsSign(Head(s)) THEN Tail(s) ELSE s

IsNeg(s) == s # <<>> /\ Head(s) = "-"

(* ------------------------------ int() ---------------------------------- *)

\* int(str): [ok |-> FALSE] stands for ValueError
IntParse(s) ==
  LET t    == Strip(s)
      body == Unsigned(t)
  IN  IF DigitPart(body)
      THEN [ok |-> TRUE,
            val |-> IF IsNeg(t) THEN 0 - DecVal(DigitsOf(body))
                    ELSE DecVal(DigitsOf(body))]
      ELSE [ok |-> FALSE]

(* ----------------------------- float() --------------------------------- *)

\* index of the first character of s in the set cs, 0 when there is none
FirstIn(s, cs) ==
  IF \E i \in 1..Len(s) : s[i] \in cs
  THEN CHOOSE i \in 1..Len(s) : s[i] \in cs /\ \A j \in 1..(i - 1) : s[j] \notin cs
  ELSE 0

RECURSIVE NumDigits(_)
NumDigits(n) == IF n < 10 THEN 1 ELSE 1 + NumDigits(n \div 10)

RECURSIVE Normalise(_, _)
Normalise(m, e) ==
  IF m = 0 THEN [m |-> 0, e |-> 0]
  ELSE IF m % 10 = 0 THEN Normalise(m \div 10, e + 1)
  ELSE [m |-> m, e |-> e]

Inf(neg) == [kind |-> "inf", neg |-> neg, m |-> 0, e |-> 0]

NaN == [kind |-> "nan", neg |-> FALSE, m |-> 0, e |-> 0]

RECURSIVE Pow10(_)
Pow10(k) == IF k = 0 THEN 1 ELSE 10 * Pow10(k - 1)

\* the leading digits of the largest double, 1.7976931348623157e308
MaxDoubleDigits == 1797693134

\* m * 10^e (m normalised) rounds to an infinity
Overflows(m, e) ==
  LET k == NumDigits(m)
      a == e + k - 1
  IN  \/ a > 308
      \/ a = 308 /\ m > MaxDoubleDigits \div Pow10(10 - k)

\* the leading digits of half the smallest subnormal double, 2.47032822e-324
HalfMinDoubleDigits == 247032822

\* m * 10^e (m normalised) rounds to a zero
Underflows(m, e) ==
  LET k == NumDigits(m)
      a == e + k - 1
  IN  \/ a < 0 - 324
      \/ a = 0 - 324 /\ (k > 9 \/ m <= HalfMinDoubleDigits \div Pow10(9 - k))

\* the double nearest to (-1)^neg * m * 10^e.  Exact for up to 15 digits
\* down to 1e-307; the subnormal range below keeps fewer digits and is not
\* reached by the arguments drawn here.
Finite(neg, m, e) ==
  LET n == Normalise(m, e)
  IN  IF n.m # 0 /\ Overflows(n.m, n.e) THEN Inf(neg)
      ELSE IF n.m # 0 /\ Underflows(n.m, n.e)
           THEN [kind |-> "fin", neg |-> neg, m |-> 0, e |-> 0]
           ELSE [kind |-> "fin", neg |-> neg, m |-> n.m, e |-> n.e]

\* float(str): [ok |-> FALSE] stands for ValueError
FloatParse(s) ==
  LET t     == Strip(s)
      neg   == IsNeg(t)
      body  == Unsigned(t)
      low   == LowerStr(body)
      ePos  == FirstIn(low, {"e"})
      mant  == IF ePos = 0 THEN body ELSE SubSeq(body, 1, ePos - 1)
      expo  == IF ePos = 0 THEN <<>> ELSE SubSeq(body, ePos + 1, Len(body))
      dPos  == FirstIn(mant, {"."})
      ip    == IF dPos = 0 THEN mant ELSE SubSeq(mant, 1, dPos - 1)
      fp    == IF dPos = 0 THEN <<>> ELSE SubSeq(mant, dPos + 1, Len(mant))
      mantOK == IF dPos = 0 THEN DigitPart(mant)
                ELSE /\ ip = <<>> \/ DigitPart(ip)
                     /\ fp = <<>> \/ DigitPart(fp)
                     /\ ~(ip = <<>> /\ fp = <<>>)
      expOK == ePos = 0 \/ DigitPart(Unsigned(expo))
      expV  == IF ePos = 0 THEN 0
               ELSE IF IsNeg(expo) THEN 0 - DecVal(DigitsOf(expo))
               ELSE DecVal(DigitsOf(expo))
  IN  IF low \in {<<"i","n","f">>, <<"i","n","f","i","n","i","t","y">>}
      THEN [ok |-> TRUE, val |-> Inf(neg)]
      ELSE IF low = <<"n","a","n">>
      THEN [ok |-> TRUE, val |-> NaN]
      ELSE IF mantOK /\ expOK
      THEN [ok |-> TRUE,
            val |-> Finite(neg, DecVal(DigitsOf(ip) \o DigitsOf(fp)),
                           expV - Len(DigitsOf(fp)))]
      ELSE [ok |-> FALSE]

(* --------------------------- the inputs -------------------------------- *)

\* sys.argv[0]
ProgNames ==
  { <<"r","u","n","_","L","e","b","w","o","h","l","L","a","s","h","e","r",".","p","y">>,
    <<".","/","r","u","n","_","L","e","b","w","o","h","l","L","a","s","h","e","r",".","p","y">> }

\* the positional arguments an invocation is built from
ArgTokens ==
  << <<"5","0">>,
     <<"3","0">>,
     <<"0",".","5">>,
     <<"0">>,
     <<"a","b","c">>,
     <<" ","-","1","_","0">>,
     <<"1","e","2">> >>

Tokens == {ArgTokens[i] : i \in 1..NumTokens}

RECURSIVE ArgLists(_)
ArgLists(n) ==
  IF n = 0 THEN {<<>>}
  ELSE {Append(a, t) : a \in ArgLists(n - 1), t \in Tokens}

Invocations ==
  {<<p>> \o a : p \in ProgNames, a \in UNION {ArgLists(n) : n \in 0..MaxArgs}}

\* the values the opaque entry point may hand back
MainResults == {"None", "energy"}

Usage ==
  "Usage: python run_LebwohlLasher.py <ITERATIONS> <SIZE> <TEMPERATURE> <PLOTFLAG>"

\* the module the launcher imports main from
ImportedModule == "LebwohlLasher_cython"

(* ---------------------------- the state -------------------------------- *)

VARIABLES
  argv,         \* sys.argv of the launcher, argv[1] is sys.argv[0]
  pc,           \* the line the launcher is about to execute
  main,         \* <<>> until the import has bound the name
  PROGNAME, ITERATIONS, SIZE, TEMPERATURE, PLOTFLAG,
  coerced,      \* the indices of sys.argv handed to int() or float(), in order
  stdout,       \* the lines the launcher has printed
  mainCalls,    \* the argument tuples main has been called with
  mainRet,      \* <<r>> once main has returned r
  exc, excLine, \* the uncaught exception and the line that raised it
  exitCode,     \* <<>> while running, then the exit status of the interpreter
  bpc,          \* the line the build script is about to execute
  ext_modules,  \* <<>> until the build script has bound the name
  setupCalls,   \* the keyword arguments setup() has been called with
  bexc          \* the uncaught exception of the build script

lvars == <<argv, pc, main, PROGNAME, ITERATIONS, SIZE, TEMPERATURE, PLOTFLAG,
           coerced, stdout, mainCalls, mainRet, exc, excLine, exitCode>>

bvars == <<bpc, ext_modules, setupCalls, bexc>>

vars == <<argv, pc, main, PROGNAME, ITERATIONS, SIZE, TEMPERATURE, PLOTFLAG,
          coerced, stdout, mainCalls, mainRet, exc, excLine, exitCode,
          bpc, ext_modules, setupCalls, bexc>>

Init ==
  /\ argv \in Invocations
  /\ pc = "L1"
  /\ main = <<>>
  /\ PROGNAME = <<>>
  /\ ITERATIONS = <<>>
  /\ SIZE = <<>>
  /\ TEMPERATURE = <<>>
  /\ PLOTFLAG = <<>>
  /\ coerced = <<>>
  /\ stdout = <<>>
  /\ mainCalls = <<>>
  /\ mainRet = <<>>
  /\ exc = "none"
  /\ excLine = 0
  /\ exitCode = <<>>
  /\ bpc = "B1"
  /\ ext_modules = <<>>
  /\ setupCalls = <<>>
  /\ bexc = "none"

(* --------------------------- the launcher ------------------------------ *)

\* an exception nothing catches ends the interpreter with status 1
Raise(type, line) ==
  /\ exc' = type
  /\ excLine' = line
  /\ exitCode' = <<1>>
  /\ pc' = "done"

\* import sys
Line1 ==
  /\ pc = "L1"
  /\ pc' = "L2"
  /\ UNCHANGED <<argv, main, PROGNAME, ITERATIONS, SIZE, TEMPERATURE, PLOTFLAG,
                 coerced, stdout, mainCalls, mainRet, exc, excLine, exitCode>>
  /\ UNCHANGED bvars

\* from LebwohlLasher_cython import main: the extension is found and loaded
Line2 ==
  /\ pc = "L2"
  /\ main' = <<ImportedModule>>
  /\ pc' = "L4"
  /\ UNCHANGED <<argv, PROGNAME, ITERATIONS, SIZE, TEMPERATURE, PLOTFLAG,
                 coerced, stdout, mainCalls, mainRet, exc, excLine, exitCode>>
  /\ UNCHANGED bvars

\* Line2Fails with the import wrapped in try/except ImportError: pass
Line2Fails_Swallowed ==
  /\ pc = "L2"
  /\ pc' = "L4"
  /\ UNCHANGED <<argv, main, PROGNAME, ITERATIONS, SIZE, TEMPERATURE, PLOTFLAG,
                 coerced, stdout, mainCalls, mainRet, exc, excLine, exitCode>>
  /\ UNCHANGED bvars

\* from LebwohlLasher_cython import main: the extension cannot be imported
Line2Fails ==
  /\ pc = "L2"
  /\ Raise("ImportError", 2)
  /\ UNCHANGED <<argv, main, PROGNAME, ITERATIONS, SIZE, TEMPERATURE, PLOTFLAG,
                 coerced, stdout, mainCalls, mainRet>>
  /\ UNCHANGED bvars

\* Line4 with the test written len(sys.argv) >= 5
Line4_AtLeast ==
  /\ pc = "L4"
  /\ pc' = IF Len(argv) >= 5 THEN "L5" ELSE "L13"
  /\ UNCHANGED <<argv, main, PROGNAME, ITERATIONS, SIZE, TEMPERATURE, PLOTFLAG,
                 coerced, stdout, mainCalls, mainRet, exc, excLine, exitCode>>
  /\ UNCHANGED bvars

\* if len(sys.argv) == 5: ... else: ...
Line4 ==
  /\ pc = "L4"
  /\ pc' = IF Len(argv) = 5 THEN "L5" ELSE "L13"
  /\ UNCHANGED <<argv, main, PROGNAME, ITERATIONS, SIZE, TEMPERATURE, PLOTFLAG,
                 coerced, stdout, mainCalls, mainRet, exc, excLine, exitCode>>
  /\ UNCHANGED bvars

\* PROGNAME = sys.argv[0]
Line5 ==
  /\ pc = "L5"
  /\ PROGNAME' = <<argv[1]>>
  /\ pc' = "L6"
  /\ UNCHANGED <<argv, main, ITERATIONS, SIZE, TEMPERATURE, PLOTFLAG,
                 coerced, stdout, mainCalls, mainRet, exc, excLine, exitCode>>
  /\ UNCHANGED bvars

\* ITERATIONS = int(sys.argv[1])
Line6 ==
  /\ pc = "L6"
  /\ coerced' = Append(coerced, 1)
  /\ LET r == IntParse(argv[2])
     IN  IF r.ok
         THEN /\ ITERATIONS' = <<r.val>>
              /\ pc' = "L7"
              /\ UNCHANGED <<exc, excLine, exitCode>>
         ELSE /\ Raise("ValueError", 6)
              /\ UNCHANGED ITERATIONS
  /\ UNCHANGED <<argv, main, PROGNAME, SIZE, TEMPERATURE, PLOTFLAG,
                 stdout, mainCalls, mainRet>>
  /\ UNCHANGED bvars

\* Line7 with the ValueError caught and SIZE defaulted to 0
Line7_Defaulted ==
  /\ pc = "L7"
  /\ coerced' = Append(coerced, 2)
  /\ LET r == IntParse(argv[3])
     IN  SIZE' = IF r.ok THEN <<r.val>> ELSE <<0>>
  /\ pc' = "L8"
  /\ UNCHANGED <<argv, main, PROGNAME, ITERATIONS, TEMPERATURE, PLOTFLAG,
                 stdout, mainCalls, mainRet, exc, excLine, exitCode>>
  /\ UNCHANGED bvars

\* SIZE = int(sys.argv[2])
Line7 ==
  /\ pc = "L7"
  /\ coerced' = Append(coerced, 2)
  /\ LET r == IntParse(argv[3])
     IN  IF r.ok
         THEN /\ SIZE' = <<r.val>>
              /\ pc' = "L8"
              /\ UNCHANGED <<exc, excLine, exitCode>>
         ELSE /\ Raise("ValueError", 7)
              /\ UNCHANGED SIZE
  /\ UNCHANGED <<argv, main, PROGNAME, ITERATIONS, TEMPERATURE, PLOTFLAG,
                 stdout, mainCalls, mainRet>>
  /\ UNCHANGED bvars

\* Line8 with the ValueError caught and answered by the usage message
Line8_Caught ==
  /\ pc = "L8"
  /\ coerced' = Append(coerced, 3)
  /\ LET r == FloatParse(argv[4])
     IN  IF r.ok
         THEN /\ TEMPERATURE' = <<r.val>>
              /\ pc' = "L9"
              /\ UNCHANGED stdout
         ELSE /\ stdout' = Append(stdout, Usage)
              /\ pc' = "eof"
              /\ UNCHANGED TEMPERATURE
  /\ UNCHANGED <<argv, main, PROGNAME, ITERATIONS, SIZE, PLOTFLAG,
                 mainCalls, mainRet, exc, excLine, exitCode>>
  /\ UNCHANGED bvars

\* TEMPERATURE = float(sys.argv[3])
Line8 ==
  /\ pc = "L8"
  /\ coerced' = Append(coerced, 3)
  /\ LET r == FloatParse(argv[4])
     IN  IF r.ok
         THEN /\ TEMPERATURE' = <<r.val>>
              /\ pc' = "L9"
              /\ UNCHANGED <<exc, excLine, exitCode>>
         ELSE /\ Raise("ValueError", 8)
              /\ UNCHANGED TEMPERATURE
  /\ UNCHANGED <<argv, main, PROGNAME, ITERATIONS, SIZE, PLOTFLAG,
                 stdout, mainCalls, mainRet>>
  /\ UNCHANGED bvars

\* PLOTFLAG = int(sys.argv[4])
Line9 ==
  /\ pc = "L9"
  /\ coerced' = Append(coerced, 4)
  /\ LET r == IntParse(argv[5])
     IN  IF r.ok
         THEN /\ PLOTFLAG' = <<r.val>>
              /\ pc' = "L11"
              /\ UNCHANGED <<exc, excLine, exitCode>>
         ELSE /\ Raise("ValueError", 9)
              /\ UNCHANGED PLOTFLAG
  /\ UNCHANGED <<argv, main, PROGNAME, ITERATIONS, SIZE, TEMPERATURE,
                 stdout, mainCalls, mainRet>>
  /\ UNCHANGED bvars

\* Line11Call with SIZE and ITERATIONS passed in each other's place
Line11Call_Swapped ==
  /\ pc = "L11"
  /\ mainCalls' = Append(mainCalls,
                         <<PROGNAME[1], SIZE[1], ITERATIONS[1],
                           TEMPERATURE[1], PLOTFLAG[1]>>)
  /\ pc' = "in_main"
  /\ UNCHANGED <<argv, main, PROGNAME, ITERATIONS, SIZE, TEMPERATURE, PLOTFLAG,
                 coerced, stdout, mainRet, exc, excLine, exitCode>>
  /\ UNCHANGED bvars

\* main(PROGNAME, ITERATIONS, SIZE, TEMPERATURE, PLOTFLAG): the call
Line11Call ==
  /\ pc = "L11"
  /\ mainCalls' = Append(mainCalls,
                         <<PROGNAME[1], ITERATIONS[1], SIZE[1],
                           TEMPERATURE[1], PLOTFLAG[1]>>)
  /\ pc' = "in_main"
  /\ UNCHANGED <<argv, main, PROGNAME, ITERATIONS, SIZE, TEMPERATURE, PLOTFLAG,
                 coerced, stdout, mainRet, exc, excLine, exitCode>>
  /\ UNCHANGED bvars

\* the entry point of the extension returns some value
MainReturns ==
  /\ pc = "in_main"
  /\ \E r \in MainResults : mainRet' = <<r>>
  /\ pc' = "L11ret"
  /\ UNCHANGED <<argv, main, PROGNAME, ITERATIONS, SIZE, TEMPERATURE, PLOTFLAG,
                 coerced, stdout, mainCalls, exc, excLine, exitCode>>
  /\ UNCHANGED bvars

\* the entry point of the extension raises
MainRaises ==
  /\ pc = "in_main"
  /\ Raise("Exception", 11)
  /\ UNCHANGED <<argv, main, PROGNAME, ITERATIONS, SIZE, TEMPERATURE, PLOTFLAG,
                 coerced, stdout, mainCalls, mainRet>>
  /\ UNCHANGED bvars

\* Line11Return written sys.exit(main(...)): a value other than None becomes
\* a failing exit status
Line11Return_ExitStatus ==
  /\ pc = "L11ret"
  /\ IF mainRet[1] = "None"
     THEN pc' = "eof" /\ UNCHANGED exitCode
     ELSE pc' = "done" /\ exitCode' = <<1>>
  /\ UNCHANGED <<argv, main, PROGNAME, ITERATIONS, SIZE, TEMPERATURE, PLOTFLAG,
                 coerced, stdout, mainCalls, mainRet, exc, excLine>>
  /\ UNCHANGED bvars

\* Line11Return without the else: the usage message follows the call
Line11Return_FallThrough ==
  /\ pc = "L11ret"
  /\ pc' = "L13"
  /\ UNCHANGED <<argv, main, PROGNAME, ITERATIONS, SIZE, TEMPERATURE, PLOTFLAG,
                 coerced, stdout, mainCalls, mainRet, exc, excLine, exitCode>>
  /\ UNCHANGED bvars

\* main(...) is an expression statement: its value is dropped
Line11Return ==
  /\ pc = "L11ret"
  /\ pc' = "eof"
  /\ UNCHANGED <<argv, main, PROGNAME, ITERATIONS, SIZE, TEMPERATURE, PLOTFLAG,
                 coerced, stdout, mainCalls, mainRet, exc, excLine, exitCode>>
  /\ UNCHANGED bvars

\* Line13 followed by sys.exit(1)
Line13_Exit1 ==
  /\ pc = "L13"
  /\ stdout' = Append(stdout, Usage)
  /\ exitCode' = <<1>>
  /\ pc' = "done"
  /\ UNCHANGED <<argv, main, PROGNAME, ITERATIONS, SIZE, TEMPERATURE, PLOTFLAG,
                 coerced, mainCalls, mainRet, exc, excLine>>
  /\ UNCHANGED bvars

\* print("Usage: ...")
Line13 ==
  /\ pc = "L13"
  /\ stdout' = Append(stdout, Usage)
  /\ pc' = "eof"
  /\ UNCHANGED <<argv, main, PROGNAME, ITERATIONS, SIZE, TEMPERATURE, PLOTFLAG,
                 coerced, mainCalls, mainRet, exc, excLine, exitCode>>
  /\ UNCHANGED bvars

\* the end of the script: the interpreter exits with status 0
EndOfFile ==
  /\ pc = "eof"
  /\ exitCode' = <<0>>
  /\ pc' = "done"
  /\ UNCHANGED <<argv, main, PROGNAME, ITERATIONS, SIZE, TEMPERATURE, PLOTFLAG,
                 coerced, stdout, mainCalls, mainRet, exc, excLine>>
  /\ UNCHANGED bvars

(* -------------------------- the build script --------------------------- *)

Extension(name, sources, compile_args, link_args) ==
  [name |-> name, sources |-> sources,
   extra_compile_args |-> compile_args, extra_link_args |-> link_args]

\* cythonize() translates each .pyx source to C and keeps the rest of a target
CSource(src) ==
  CASE src = "LebwohlLasher_cython.pyx" -> "LebwohlLasher_cython.c"
    [] OTHER -> src

Cythonize(exts) ==
  [i \in 1..Len(exts) |->
     [exts[i] EXCEPT !.sources = [j \in 1..Len(exts[i].sources) |->
                                    CSource(exts[i].sources[j])]]]

\* the three imports of the build script succeed
BuildImports ==
  /\ bpc = "B1"
  /\ bpc' = "B5"
  /\ UNCHANGED <<ext_modules, setupCalls, bexc>>
  /\ UNCHANGED lvars

\* distutils or Cython is not installed
BuildImportsFail ==
  /\ bpc = "B1"
  /\ bexc' = "ImportError"
  /\ bpc' = "Bdone"
  /\ UNCHANGED <<ext_modules, setupCalls>>
  /\ UNCHANGED lvars

\* BuildLine5 with the link argument written '-fopenmp'
BuildLine5_Dash ==
  /\ bpc = "B5"
  /\ ext_modules' = << <<Extension("LebwohlLasher_cython",
                                   <<"LebwohlLasher_cython.pyx">>,
                                   <<"-fopenmp">>,
                                   <<"-fopenmp">>)>> >>
  /\ bpc' = "B10"
  /\ UNCHANGED <<setupCalls, bexc>>
  /\ UNCHANGED lvars

\* ext_modules = [Extension(...)]
BuildLine5 ==
  /\ bpc = "B5"
  /\ ext_modules' = << <<Extension("LebwohlLasher_cython",
                                   <<"LebwohlLasher_cython.pyx">>,
                                   <<"-fopenmp">>,
                                   <<"fopenmp">>)>> >>
  /\ bpc' = "B10"
  /\ UNCHANGED <<setupCalls, bexc>>
  /\ UNCHANGED lvars

\* setup(name=..., ext_modules=cythonize(ext_modules))
BuildLine10 ==
  /\ bpc = "B10"
  /\ setupCalls' = Append(setupCalls,
                          [name |-> "LebwohlLasher_cython",
                           ext_modules |-> Cythonize(ext_modules[1])])
  /\ bpc' = "Bdone"
  /\ UNCHANGED <<ext_modules, bexc>>
  /\ UNCHANGED lvars

\* cythonize() fails: the .pyx source is missing or does not compile
BuildLine10Fails ==
  /\ bpc = "B10"
  /\ bexc' = "CompileError"
  /\ bpc' = "Bdone"
  /\ UNCHANGED <<ext_modules, setupCalls>>
  /\ UNCHANGED lvars

(* ------------------------- the specification --------------------------- *)

Next ==
  \/ Line1
  \/ Line2
  \/ Line2Fails
  \/ Line4
  \/ Line5
  \/ Line6
  \/ Line7
  \/ Line8
  \/ Line9
  \/ Line11Call
  \/ MainReturns
  \/ MainRaises
  \/ Line11Return
  \/ Line13
  \/ EndOfFile
  \/ BuildImports
  \/ BuildImportsFail
  \/ BuildLine5
  \/ BuildLine10
  \/ BuildLine10Fails

Spec == Init /\ [][Next]_vars

(* ----------------------------- properties ------------------------------ *)

Done == pc = "done"

Imported == main # <<>>

FourArgs == Len(argv) = 5

\* all four positional arguments coerce to their target types
Parseable ==
  /\ FourArgs
  /\ IntParse(argv[2]).ok
  /\ IntParse(argv[3]).ok
  /\ FloatParse(argv[4]).ok
  /\ IntParse(argv[5]).ok

\* the tuple main is to be called with
ExpectedCall ==
  <<argv[1], IntParse(argv[2]).val, IntParse(argv[3]).val,
    FloatParse(argv[4]).val, IntParse(argv[5]).val>>

\* the arguments ["50", "30", "0.5", "0"]
ExampleArgs == << <<"5","0">>, <<"3","0">>, <<"0",".","5">>, <<"0">> >>

\* the float 0.5
Half == [kind |-> "fin", neg |-> FALSE, m |-> 5, e |-> 0 - 1]

CoercionError == exc = "ValueError" /\ excLine \in 6..9

\* the first of the four positional arguments that does not coerce, 0 if none
FirstBad ==
  IF ~IntParse(argv[2]).ok THEN 1
  ELSE IF ~IntParse(argv[3]).ok THEN 2
  ELSE IF ~FloatParse(argv[4]).ok THEN 3
  ELSE IF ~IntParse(argv[5]).ok THEN 4
  ELSE 0

\* C1 as stated: every finished run with four parseable arguments has called
\* main with the program name and the four coerced values.
C1_Original ==
  (Done /\ Parseable) => mainCalls = <<ExpectedCall>>

\* C1 amended: in every run whose import of main succeeded, four parseable
\* arguments lead to exactly one call main(argv[0], int(argv[1]), int(argv[2]),
\* float(argv[3]), int(argv[4])), values unaltered and in this order; the
\* arguments ["50","30","0.5","0"] give main(program_name, 50, 30, 0.5, 0).
C1_Amended ==
  /\ (Imported /\ Parseable /\ pc \in {"in_main", "L11ret", "eof", "done"})
        => mainCalls = <<ExpectedCall>>
  /\ (Imported /\ FourArgs /\ Tail(argv) = ExampleArgs /\ Done)
        => mainCalls = << <<argv[1], 50, 30, Half, 0>> >>

C1_Witness ==
  /\ Done
  /\ Tail(argv) = ExampleArgs
  /\ mainCalls = << <<argv[1], 50, 30, Half, 0>> >>

\* C2 as stated: every finished run with a positional argument count other
\* than 4 has printed the usage string and has not called main.
C2_Original ==
  (Done /\ ~FourArgs) => (stdout = <<Usage>> /\ mainCalls = <<>>)

\* C2 amended: with a positional argument count other than 4 main is never
\* called, and every such run whose import of main succeeded prints exactly
\* the usage string.
C2_Amended ==
  ~FourArgs =>
    /\ mainCalls = <<>>
    /\ pc # "in_main"
    /\ (Done /\ Imported) => stdout = <<Usage>>

C2_Witness ==
  /\ Done
  /\ Len(argv) = 4
  /\ stdout = <<Usage>>
  /\ mainCalls = <<>>

\* C3 as stated: a run with a wrong argument count prints the usage message,
\* coerces nothing, raises nothing and ends with the exit status of a
\* completed run.
C3_Original ==
  (Done /\ ~FourArgs) =>
    /\ stdout = <<Usage>>
    /\ coerced = <<>>
    /\ exc = "none"
    /\ exitCode = <<0>>

\* C3 amended: in runs whose import of main succeeded, a wrong argument count
\* is the only case in which the launcher prints; that run coerces nothing,
\* raises nothing and ends with exit status 0, the status of a run in which
\* main returned; every exception ends the run with status 1, uncaught.
C3_Amended ==
  /\ (Done /\ Imported /\ ~FourArgs) =>
        /\ stdout = <<Usage>>
        /\ coerced = <<>>
        /\ <<ITERATIONS, SIZE, TEMPERATURE, PLOTFLAG>> = <<<<>>, <<>>, <<>>, <<>>>>
        /\ exc = "none"
        /\ exitCode = <<0>>
  /\ (Done /\ mainRet # <<>>) => exitCode = <<0>>
  /\ stdout # <<>> => ~FourArgs
  /\ exc # "none" => (Done /\ exitCode = <<1>>)

C3_Witness ==
  /\ Done
  /\ Len(argv) = 6
  /\ stdout = <<Usage>>
  /\ exitCode = <<0>>

\* C4: with four positional arguments of which at least one does not coerce,
\* the run ends in an uncaught error (the ValueError of the coercion once the
\* import has succeeded), main is not called and nothing is printed.
C4_CoercionUncaught ==
  (FourArgs /\ ~Parseable) =>
    /\ mainCalls = <<>>
    /\ stdout = <<>>
    /\ Done => (exc \in {"ValueError", "ImportError"} /\ exitCode = <<1>>)
    /\ (Done /\ Imported) => CoercionError

C4_Witness ==
  /\ Done
  /\ FourArgs
  /\ IntParse(argv[2]).ok
  /\ ~IntParse(argv[3]).ok
  /\ exc = "ValueError"
  /\ excLine = 7

\* C5: once main has returned, what the launcher does is the same whatever
\* value came back: nothing is printed, nothing is raised, no name is
\* rebound, and the run ends with exit status 0.
C5_ReturnIgnored ==
  mainRet # <<>> =>
    /\ stdout = <<>>
    /\ exc = "none"
    /\ mainCalls = <<ExpectedCall>>
    /\ pc \in {"L11ret", "eof", "done"}
    /\ exitCode = IF Done THEN <<0>> ELSE <<>>

C5_Witness ==
  /\ Done
  /\ mainRet = <<"energy">>
  /\ exitCode = <<0>>
  /\ stdout = <<>>

\* C6: the build script declares exactly one extension, LebwohlLasher_cython
\* (the module the launcher imports main from), with the single source
\* LebwohlLasher_cython.pyx, compile arguments ['-fopenmp'] and link
\* arguments ['fopenmp'] (no leading dash), and hands that one target,
\* cythonized, to a single setup() call.
C6_BuildTarget ==
  /\ ext_modules # <<>> =>
        /\ Len(ext_modules[1]) = 1
        /\ ext_modules[1][1].name = ImportedModule
        /\ ext_modules[1][1].sources = <<"LebwohlLasher_cython.pyx">>
        /\ ext_modules[1][1].extra_compile_args = <<"-fopenmp">>
        /\ ext_modules[1][1].extra_link_args = <<"fopenmp">>
        /\ ext_modules[1][1].extra_link_args # ext_modules[1][1].extra_compile_args
  /\ Len(setupCalls) <= 1
  /\ setupCalls # <<>> =>
        /\ setupCalls[1].name = ImportedModule
        /\ Len(setupCalls[1].ext_modules) = 1
        /\ setupCalls[1].ext_modules[1].name = ext_modules[1][1].name
        /\ setupCalls[1].ext_modules[1].extra_compile_args = <<"-fopenmp">>
        /\ setupCalls[1].ext_modules[1].extra_link_args = <<"fopenmp">>

C6_Witness ==
  /\ bpc = "Bdone"
  /\ Len(setupCalls) = 1
  /\ setupCalls[1].ext_modules[1].extra_link_args = <<"fopenmp">>

\* C7: the import runs before the argument count is looked at: the usage
\* message is printed only when main is bound, and a failed import ends every
\* run, whatever its argument count, in an uncaught ImportError with nothing
\* printed and main not called.
C7_ImportFirst ==
  /\ pc \in {"L4", "L5", "L6", "L7", "L8", "L9", "L11", "L13", "in_main",
             "L11ret", "eof"} => Imported
  /\ stdout # <<>> => Imported
  /\ (Done /\ ~Imported) =>
        /\ exc = "ImportError"
        /\ excLine = 2
        /\ exitCode = <<1>>
        /\ stdout = <<>>
        /\ mainCalls = <<>>
        /\ coerced = <<>>

C7_Witness ==
  /\ Done
  /\ ~FourArgs
  /\ exc = "ImportError"
  /\ stdout = <<>>

\* C8: the coercions run in the order ITERATIONS, SIZE, TEMPERATURE, PLOTFLAG;
\* main is entered only after all four succeeded; the first argument that
\* fails ends the run and no later argument is coerced.
C8_CoercionOrder ==
  /\ coerced = SubSeq(<<1, 2, 3, 4>>, 1, Len(coerced))
  /\ ITERATIONS # <<>> <=> (Len(coerced) >= 1 /\ FirstBad # 1)
  /\ SIZE # <<>> <=> (Len(coerced) >= 2 /\ FirstBad # 2)
  /\ TEMPERATURE # <<>> <=> (Len(coerced) >= 3 /\ FirstBad # 3)
  /\ PLOTFLAG # <<>> <=> (Len(coerced) >= 4 /\ FirstBad # 4)
  /\ (pc \in {"L11", "in_main", "L11ret"} \/ mainCalls # <<>>) =>
        /\ coerced = <<1, 2, 3, 4>>
        /\ FirstBad = 0
  /\ CoercionError =>
        /\ Done
        /\ Len(coerced) = FirstBad
        /\ excLine = 5 + FirstBad
        /\ mainCalls = <<>>
  /\ (FourArgs /\ Imported /\ Done /\ FirstBad # 0) => CoercionError

C8_Witness ==
  /\ Done
  /\ CoercionError
  /\ coerced = <<1, 2>>
  /\ ITERATIONS # <<>>
  /\ ~FloatParse(argv[4]).ok
  /\ TEMPERATURE = <<>>

\* C9: main is called at most once and the usage message printed at most
\* once; a main call, a usage message and a coercion error exclude each
\* other; a finished run whose import succeeded has exactly one of them,
\* fixed by the argument count and the parseability of the arguments.
C9_OneOutcome ==
  /\ Len(mainCalls) <= 1
  /\ Len(stdout) <= 1
  /\ ~(mainCalls # <<>> /\ stdout # <<>>)
  /\ ~(mainCalls # <<>> /\ CoercionError)
  /\ ~(stdout # <<>> /\ CoercionError)
  /\ (Done /\ Imported) =>
        /\ mainCalls # <<>> <=> Parseable
        /\ stdout # <<>> <=> ~FourArgs
        /\ CoercionError <=> (FourArgs /\ ~Parseable)

C9_Witness ==
  /\ Done
  /\ Imported
  /\ Len(mainCalls) = 1
  /\ exc = "Exception"
  /\ stdout = <<>>

====
